---- MODULE Spec2Model ----
(***************************************************************************)
(* TileForge (src/main.js): the keyboard focus navigation of the tile grid *)
(* (InputSystem) and the entity life cycle of TileForgeApp (addEntity,     *)
(* clear).                                                                 *)
(*                                                                         *)
(* Indices are the program's: 0-based, -1 for "none".  A TLA+ sequence is  *)
(* 1-based, so entry i of a JavaScript array is s[i + 1].                  *)
(***************************************************************************)
EXTENDS Integers, Sequences, FiniteSets, TLC

\* ------------------------------------------------------------------ bounds
\* The longest collection the model builds.
MaxLen == 3

\* The longest collection built while the host also switches the input
\* system off and on.
ActiveLen == 2

\* The longest collection built while the host also detaches elements.
DetachLen == 2

\* The longest collection built while the measurements range over every kind
\* of value.
MetricsLen == 1

\* main.js:233, "16 = gap".
Gap == 16

\* ------------------------------------------------------------ JS numbers
\* A JavaScript value read as a number: a finite integer, NaN, +Infinity,
\* -Infinity or undefined (offsetWidth of something that is no laid-out
\* element).
Num(n) == [kind |-> "num", v |-> n]
NaN == [kind |-> "nan", v |-> 0]
PosInf == [kind |-> "inf", v |-> 0]
NegInf == [kind |-> "ninf", v |-> 0]
Undef == [kind |-> "undef", v |-> 0]

\* !x
Falsy(x) == x.kind \in {"nan", "undef"} \/ (x.kind = "num" /\ x.v = 0)

\* x <= 0 (false for NaN and undefined)
LeqZero(x) == (x.kind = "num" /\ x.v <= 0) \/ x.kind = "ninf"

\* x + n for a finite integer n
JsAdd(x, n) ==
  CASE x.kind = "num" -> Num(x.v + n)
    [] x.kind = "inf" -> PosInf
    [] x.kind = "ninf" -> NegInf
    [] OTHER -> NaN

\* Math.floor(a / b)
JsFloorDiv(a, b) ==
  CASE a.kind \in {"nan", "undef"} \/ b.kind \in {"nan", "undef"} -> NaN
    [] a.kind = "num" /\ b.kind = "num" ->
         IF b.v > 0 THEN Num(a.v \div b.v)
         ELSE IF b.v < 0 THEN Num((0 - a.v) \div (0 - b.v))
         ELSE IF a.v > 0 THEN PosInf
         ELSE IF a.v < 0 THEN NegInf
         ELSE NaN
    [] a.kind = "num" -> Num(0)
    [] b.kind = "num" ->
         IF (a.kind = "inf") = (b.v >= 0) THEN PosInf ELSE NegInf
    [] OTHER -> NaN

\* isFinite(x)
JsIsFinite(x) == x.kind = "num"

\* ------------------------------------------------------------- the inputs
\* props.id as the host passes it; "" stands for a missing (falsy) id.
Ids == {"a", "b"}
NoId == ""

\* e.key of a keydown event; "x" stands for any key the switch has no case
\* for.
Arrows == {"ArrowRight", "ArrowLeft", "ArrowDown", "ArrowUp"}
Keys == Arrows \cup {"Enter", " ", "x"}

\* Layout measurements the browser reports: 2 and 4 tiles of 200px to a
\* row, and a tile not laid out yet (width 0).
GridWidths == {Num(500), Num(1000)}
ItemWidths == {Num(0), Num(200)}

\* Every kind of measurement calcMetrics can be handed.
AllGridWidths == {Num(0), Num(215), Num(1000), Undef}
AllItemWidths == {Num(-8), Num(0), Num(100), Num(199), NaN, PosInf, Undef}

VARIABLES
  entities,      \* TileForgeApp.entities: the entity objects, in insertion order
  items,         \* InputSystem.items: the array registerItems was given
  element,       \* element[o]: the DOM node of entity object o (class, attachment)
  focusedIndex,  \* InputSystem.focusedIndex
  cols,          \* InputSystem.cols
  active,        \* InputSystem.active
  targetGuard,   \* which copy of the body of focus() the build carries
  gridW,         \* live layout: container.offsetWidth
  itemW,         \* live layout: offsetWidth of an attached tile
  destroyedIds,  \* ids of the entities clear() has dropped
  last,          \* what the last handler did (observation only)
  rightRun,      \* ArrowRight presses handled in a row (observation only)
  pc             \* position in the scripted scenario (0 outside it)

vars == <<entities, items, element, focusedIndex, cols, active, targetGuard,
          gridW, itemW, destroyedIds, last, rightRun, pc>>

\* What a handler is observed to do: the operation ("addEntity" with an id in
\* props, "addEntityNoId" without), focusedIndex as it found it, whether it
\* ended in an exception, how often it called classList.add("tf-focused"),
\* scrollIntoView and element.click(), and the index of the entity clicked
\* (-1 when none was).
Effect(op, threw, addClass, scroll, click, clickAt) ==
  [op |-> op, prev |-> focusedIndex, threw |-> threw, addClass |-> addClass,
   scroll |-> scroll, click |-> click, clickAt |-> clickAt]

AddOps == {"addEntity", "addEntityNoId"}

Min(a, b) == IF a < b THEN a ELSE b
Max(a, b) == IF a > b THEN a ELSE b

\* ---------------------------------------------------------- GameObject
\* GameObject.constructor: this.id = props.id || <random string>.  The random
\* string is any string, r.
GameObjectId(propsId, r) == IF propsId = NoId THEN r ELSE propsId

\* TileEntity.constructor: a fresh element of class "tf-entity" only, not yet
\* in the document.
NewElement == [focused |-> FALSE, attached |-> FALSE]

\* ---------------------------------------------------------- InputSystem
\* items[index].element.offsetWidth: 0 for a node outside the document.
OffsetWidth(el, w) == IF el.attached THEN w ELSE Num(0)

\* calcMetrics dividing by the item width alone, the gap forgotten.
calcMetricsNoGap(its, elem, oldCols, W, w) ==
  IF Len(its) = 0 THEN oldCols
  ELSE LET iW == OffsetWidth(elem[its[1].obj], w)
       IN IF Falsy(iW) \/ LeqZero(iW) THEN 1
          ELSE LET c == JsFloorDiv(W, iW)
               IN IF ~JsIsFinite(c) \/ c.v < 1 THEN 1 ELSE c.v

\* calcMetrics falling back to one column on an empty collection.
calcMetricsResetOnEmpty(its, elem, oldCols, W, w) ==
  IF Len(its) = 0 THEN 1
  ELSE LET iW == OffsetWidth(elem[its[1].obj], w)
       IN IF Falsy(iW) \/ LeqZero(iW) THEN 1
          ELSE LET c == JsFloorDiv(W, JsAdd(iW, Gap))
               IN IF ~JsIsFinite(c) \/ c.v < 1 THEN 1 ELSE c.v

\* calcMetrics: the new value of this.cols.
calcMetrics(its, elem, oldCols, W, w) ==
  IF Len(its) = 0 THEN oldCols
  ELSE LET gW == W
           iW == OffsetWidth(elem[its[1].obj], w)
       IN IF Falsy(iW) \/ LeqZero(iW) THEN 1
          ELSE LET c == JsFloorDiv(gW, JsAdd(iW, Gap))
               IN IF ~JsIsFinite(c) \/ c.v < 1 THEN 1 ELSE c.v

\* The clamp without its upper half.
ClampIndexNoUpper(index, len) == IF index < 0 THEN 0 ELSE index

\* The clamp wrapping around at the low end.
ClampIndexWrapLow(index, len) ==
  IF index < 0 THEN len - 1 ELSE IF index >= len THEN len - 1 ELSE index

\* The clamp wrapping around at the high end.
ClampIndexWrapHigh(index, len) ==
  IF index < 0 THEN 0 ELSE IF index >= len THEN Min(0, len - 1) ELSE index

\* focus(index), lines 239-240: the clamp.
ClampIndex(index, len) ==
  LET i1 == IF index < 0 THEN 0 ELSE index
  IN IF i1 >= len THEN len - 1 ELSE i1

\* focus(index) returning early when the clamped index is the focused one.
focusSkipSame(index, its, elem, guard) ==
  LET idx == ClampIndex(index, Len(its))
      hasTarget == idx >= 0 /\ idx < Len(its)
  IN IF hasTarget /\ idx # focusedIndex
     THEN LET o == its[idx + 1].obj
          IN [focusedIndex |-> idx,
              element |-> [elem EXCEPT ![o].focused = TRUE],
              threw |-> FALSE,
              addClass |-> 1,
              scroll |-> IF elem[o].attached THEN 1 ELSE 0]
     ELSE [focusedIndex |-> idx, element |-> elem, threw |-> FALSE,
           addClass |-> 0, scroll |-> 0]

\* focus(index) scrolling to the target without asking whether the document
\* contains it.
focusScrollAlways(index, its, elem, guard) ==
  LET idx == ClampIndex(index, Len(its))
      hasTarget == idx >= 0 /\ idx < Len(its)
  IN IF hasTarget
     THEN LET o == its[idx + 1].obj
          IN [focusedIndex |-> idx,
              element |-> [elem EXCEPT ![o].focused = TRUE],
              threw |-> FALSE,
              addClass |-> 1,
              scroll |-> 1]
     ELSE [focusedIndex |-> idx, element |-> elem, threw |-> ~guard,
           addClass |-> 0, scroll |-> 0]

\* focus(index): the index it stores, the elements afterwards, and what it
\* did.  The source carries two copies of the visual update: one under
\* "if (target && target.element)" (lines 244-246) and one that dereferences
\* target unconditionally (lines 248-249); guard says which one runs.
focus(index, its, elem, guard) ==
  LET idx == ClampIndex(index, Len(its))
      hasTarget == idx >= 0 /\ idx < Len(its)
  IN IF hasTarget
     THEN LET o == its[idx + 1].obj
          IN [focusedIndex |-> idx,
              element |-> [elem EXCEPT ![o].focused = TRUE],
              threw |-> FALSE,
              addClass |-> 1,
              scroll |-> IF elem[o].attached THEN 1 ELSE 0]
     ELSE [focusedIndex |-> idx,
           element |-> elem,
           threw |-> ~guard,
           addClass |-> 0,
           scroll |-> 0]

\* registerItems keeping the focus where it was when it still fits.
registerItemsKeepFocus(its, elem, oldCols, W, w, guard) ==
  LET c == calcMetrics(its, elem, oldCols, W, w)
  IN IF Len(its) > 0
     THEN LET f == focus(focusedIndex, its, elem, guard)
          IN [cols |-> c, focusedIndex |-> f.focusedIndex, element |-> f.element,
              threw |-> f.threw, addClass |-> f.addClass, scroll |-> f.scroll]
     ELSE [cols |-> c, focusedIndex |-> -1, element |-> elem,
           threw |-> FALSE, addClass |-> 0, scroll |-> 0]

\* registerItems(items), given the layout it measures.
registerItems(its, elem, oldCols, W, w, guard) ==
  LET c == calcMetrics(its, elem, oldCols, W, w)
  IN IF Len(its) > 0
     THEN LET f == focus(0, its, elem, guard)
          IN [cols |-> c, focusedIndex |-> f.focusedIndex, element |-> f.element,
              threw |-> f.threw, addClass |-> f.addClass, scroll |-> f.scroll]
     ELSE [cols |-> c, focusedIndex |-> -1, element |-> elem,
           threw |-> FALSE, addClass |-> 0, scroll |-> 0]

\* Up and down moving by one item instead of one row.
KeyDeltaOneStep(key, c) == IF key \in {"ArrowRight", "ArrowDown"} THEN 1 ELSE -1

\* The delta handleKey passes to focus for an arrow key.
KeyDelta(key, c) ==
  CASE key = "ArrowRight" -> 1
    [] key = "ArrowLeft" -> -1
    [] key = "ArrowDown" -> c
    [] key = "ArrowUp" -> 0 - c

\* The switch with Enter and Space clicking the first item instead of the
\* focused one.
keySwitchClickFirst(key, fi, c, its, elem, guard) ==
  IF key \in Arrows
  THEN LET f == focus(fi + KeyDelta(key, c), its, elem, guard)
       IN [focusedIndex |-> f.focusedIndex, element |-> f.element,
           threw |-> f.threw, addClass |-> f.addClass, scroll |-> f.scroll,
           click |-> 0, clickAt |-> -1]
  ELSE LET hit == key \in {"Enter", " "} /\ Len(its) > 0
       IN [focusedIndex |-> fi, element |-> elem, threw |-> FALSE,
           addClass |-> 0, scroll |-> 0,
           click |-> IF hit THEN 1 ELSE 0,
           clickAt |-> IF hit THEN 0 ELSE -1]

\* The switch with a default case that moves right.
keySwitchDefaultMoves(key, fi, c, its, elem, guard) ==
  IF key \notin {"Enter", " "}
  THEN LET f == focus(fi + (IF key \in Arrows THEN KeyDelta(key, c) ELSE 1),
                      its, elem, guard)
       IN [focusedIndex |-> f.focusedIndex, element |-> f.element,
           threw |-> f.threw, addClass |-> f.addClass, scroll |-> f.scroll,
           click |-> 0, clickAt |-> -1]
  ELSE LET hit == fi >= 0 /\ fi < Len(its)
       IN [focusedIndex |-> fi, element |-> elem, threw |-> FALSE,
           addClass |-> 0, scroll |-> 0,
           click |-> IF hit THEN 1 ELSE 0,
           clickAt |-> IF hit THEN fi ELSE -1]

\* handleKey, lines 269-287: the switch on e.key, with cols already
\* recomputed to c.  A key without a case does nothing.
keySwitch(key, fi, c, its, elem, guard) ==
  IF key \in Arrows
  THEN LET f == focus(fi + KeyDelta(key, c), its, elem, guard)
       IN [focusedIndex |-> f.focusedIndex, element |-> f.element,
           threw |-> f.threw, addClass |-> f.addClass, scroll |-> f.scroll,
           click |-> 0, clickAt |-> -1]
  ELSE LET hit == key \in {"Enter", " "} /\ fi >= 0 /\ fi < Len(its)
       IN [focusedIndex |-> fi, element |-> elem, threw |-> FALSE,
           addClass |-> 0, scroll |-> 0,
           click |-> IF hit THEN 1 ELSE 0,
           clickAt |-> IF hit THEN fi ELSE -1]

\* handleKey moving by the cached cols and recomputing them afterwards.
handleKeyStaleCols(key, fi, oldCols, its, elem, W, w, guard) ==
  LET c == calcMetrics(its, elem, oldCols, W, w)
      k == keySwitch(key, fi, oldCols, its, elem, guard)
  IN [cols |-> c, focusedIndex |-> k.focusedIndex, element |-> k.element,
      threw |-> k.threw, addClass |-> k.addClass, scroll |-> k.scroll,
      click |-> k.click, clickAt |-> k.clickAt]

\* handleKey past its first line: calcMetrics on the layout (W, w), then the
\* switch.
handleKeyActive(key, fi, oldCols, its, elem, W, w, guard) ==
  LET c == calcMetrics(its, elem, oldCols, W, w)
      k == keySwitch(key, fi, c, its, elem, guard)
  IN [cols |-> c, focusedIndex |-> k.focusedIndex, element |-> k.element,
      threw |-> k.threw, addClass |-> k.addClass, scroll |-> k.scroll,
      click |-> k.click, clickAt |-> k.clickAt]

\* handleKey without its first line.
handleKeyIgnoreActive(key, act, fi, oldCols, its, elem, W, w, guard) ==
  handleKeyActive(key, fi, oldCols, its, elem, W, w, guard)

\* handleKey(e): "if (!this.active) return;" and then the rest.
handleKey(key, act, fi, oldCols, its, elem, W, w, guard) ==
  IF ~act
  THEN [cols |-> oldCols, focusedIndex |-> fi, element |-> elem,
        threw |-> FALSE, addClass |-> 0, scroll |-> 0, click |-> 0,
        clickAt |-> -1]
  ELSE handleKeyActive(key, fi, oldCols, its, elem, W, w, guard)

\* ------------------------------------------------------------ the actions
\* addEntity putting the new entity first (unshift for push).
AddEntityOpPrepend(propsId, r) ==
  LET ent == [obj |-> Len(entities) + 1, id |-> GameObjectId(propsId, r)]
      ents == <<ent>> \o entities
      elem == Append(element, [NewElement EXCEPT !.attached = TRUE])
      reg == registerItems(ents, elem, cols, gridW, itemW, targetGuard)
  IN /\ entities' = ents
     /\ items' = ents
     /\ element' = reg.element
     /\ cols' = reg.cols
     /\ focusedIndex' = reg.focusedIndex
     /\ last' = Effect(IF propsId = NoId THEN "addEntityNoId" ELSE "addEntity",
                        reg.threw, reg.addClass, reg.scroll, 0, -1)
     /\ rightRun' = 0
     /\ UNCHANGED <<active, targetGuard, gridW, itemW, destroyedIds>>

\* app.addEntity(props), props.id = propsId.
AddEntityOp(propsId, r) ==
  LET ent == [obj |-> Len(entities) + 1, id |-> GameObjectId(propsId, r)]
      ents == Append(entities, ent)
      elem == Append(element, [NewElement EXCEPT !.attached = TRUE])
      reg == registerItems(ents, elem, cols, gridW, itemW, targetGuard)
  IN /\ entities' = ents
     /\ items' = ents
     /\ element' = reg.element
     /\ cols' = reg.cols
     /\ focusedIndex' = reg.focusedIndex
     /\ last' = Effect(IF propsId = NoId THEN "addEntityNoId" ELSE "addEntity",
                        reg.threw, reg.addClass, reg.scroll, 0, -1)
     /\ rightRun' = 0
     /\ UNCHANGED <<active, targetGuard, gridW, itemW, destroyedIds>>

\* app.clear().
ClearOp ==
  LET reg == registerItems(<<>>, <<>>, cols, gridW, itemW, targetGuard)
  IN /\ entities' = <<>>
     /\ items' = <<>>
     /\ element' = <<>>
     /\ cols' = reg.cols
     /\ focusedIndex' = reg.focusedIndex
     /\ destroyedIds' = destroyedIds \cup {entities[i].id : i \in 1..Len(entities)}
     /\ last' = Effect("clear", reg.threw, reg.addClass, reg.scroll, 0, -1)
     /\ rightRun' = 0
     /\ UNCHANGED <<active, targetGuard, gridW, itemW>>

\* The keydown listener: handleKey(e), e.key = key.
HandleKeyOp(key) ==
  LET h == handleKey(key, active, focusedIndex, cols, items, element, gridW,
                     itemW, targetGuard)
  IN /\ cols' = h.cols
     /\ focusedIndex' = h.focusedIndex
     /\ element' = h.element
     /\ last' = Effect(key, h.threw, h.addClass, h.scroll, h.click, h.clickAt)
     /\ rightRun' = IF active /\ key = "ArrowRight"
                    THEN Min(rightRun + 1, MaxLen + 2) ELSE 0
     /\ UNCHANGED <<entities, items, active, targetGuard, gridW, itemW,
                    destroyedIds>>

\* A resize listener that registers the items again.
ResizeOpReRegister(W, w) ==
  LET reg == registerItems(items, element, cols, W, w, targetGuard)
  IN /\ gridW' = W
     /\ itemW' = w
     /\ cols' = reg.cols
     /\ focusedIndex' = reg.focusedIndex
     /\ element' = reg.element
     /\ last' = Effect("resize", reg.threw, reg.addClass, reg.scroll, 0, -1)
     /\ rightRun' = 0
     /\ UNCHANGED <<entities, items, active, targetGuard, destroyedIds>>

\* The window's resize listener: the layout is now (W, w) and calcMetrics
\* runs.
ResizeOp(W, w) ==
  /\ gridW' = W
  /\ itemW' = w
  /\ cols' = calcMetrics(items, element, cols, W, w)
  /\ last' = Effect("resize", FALSE, 0, 0, 0, -1)
  /\ rightRun' = 0
  /\ UNCHANGED <<entities, items, element, focusedIndex, active, targetGuard,
                 destroyedIds>>

\* The page reflows (content, fonts, a container style): the layout changes
\* and no listener of the program runs.
ReflowOp(W, w) ==
  /\ gridW' = W
  /\ itemW' = w
  /\ last' = Effect("reflow", FALSE, 0, 0, 0, -1)
  /\ rightRun' = 0
  /\ UNCHANGED <<entities, items, element, focusedIndex, cols, active,
                 targetGuard, destroyedIds>>

\* The host calls destroy() on the handle addEntity returned for the entity
\* at index i: GameObject.destroy removes its element from the document; the
\* entity stays in the arrays.
DestroyEntityOp(i) ==
  /\ element' = [element EXCEPT ![entities[i + 1].obj].attached = FALSE]
  /\ last' = Effect("destroy", FALSE, 0, 0, 0, -1)
  /\ rightRun' = 0
  /\ UNCHANGED <<entities, items, focusedIndex, cols, active, targetGuard,
                 gridW, itemW, destroyedIds>>

\* The host assigns app.input.active.
SetActiveOp(b) ==
  /\ active' = b
  /\ last' = Effect("setActive", FALSE, 0, 0, 0, -1)
  /\ rightRun' = 0
  /\ UNCHANGED <<entities, items, element, focusedIndex, cols, targetGuard,
                 gridW, itemW, destroyedIds>>

\* -------------------------------------------------------- specification
\* new TileForge(config): InputSystem's constructor, on some layout.
AppInit ==
  /\ entities = <<>>
  /\ items = <<>>
  /\ element = <<>>
  /\ focusedIndex = -1
  /\ cols = 1
  /\ active = TRUE
  /\ targetGuard \in BOOLEAN
  /\ destroyedIds = {}
  /\ last = Effect("init", FALSE, 0, 0, 0, -1)
  /\ rightRun = 0

Init ==
  /\ AppInit
  /\ gridW \in GridWidths
  /\ itemW \in ItemWidths
  /\ pc = 0

AddEntity ==
  /\ Len(entities) < MaxLen
  /\ \E propsId \in Ids \cup {NoId}, r \in Ids : AddEntityOp(propsId, r)
  /\ UNCHANGED pc

Clear == ClearOp /\ UNCHANGED pc

HandleKey == (\E key \in Keys : HandleKeyOp(key)) /\ UNCHANGED pc

Resize ==
  /\ \E W \in GridWidths, w \in ItemWidths : ResizeOp(W, w)
  /\ UNCHANGED pc

Reflow ==
  /\ \E W \in GridWidths, w \in ItemWidths : ReflowOp(W, w)
  /\ UNCHANGED pc

Next == AddEntity \/ Clear \/ HandleKey \/ Resize \/ Reflow

Spec == Init /\ [][Next]_vars

\* --------------------------------- with the input system switched off/on
ActiveAddEntity ==
  /\ Len(entities) < ActiveLen
  /\ \E propsId \in Ids \cup {NoId}, r \in Ids : AddEntityOp(propsId, r)
  /\ UNCHANGED pc

SetActive == (\E b \in BOOLEAN : SetActiveOp(b)) /\ UNCHANGED pc

ActiveNext ==
  ActiveAddEntity \/ Clear \/ HandleKey \/ Resize \/ Reflow \/ SetActive

SpecActive == Init /\ [][ActiveNext]_vars

\* ------------------------------------------- with elements being detached
\* Ids play no part in scrolling: every entity gets the id "a", given or
\* generated.
DetachAddEntity ==
  /\ Len(entities) < DetachLen
  /\ \E propsId \in {"a", NoId} : AddEntityOp(propsId, "a")
  /\ UNCHANGED pc

DestroyEntity ==
  /\ \E i \in 0..(Len(entities) - 1) : DestroyEntityOp(i)
  /\ UNCHANGED pc

DetachNext ==
  DetachAddEntity \/ Clear \/ HandleKey \/ Resize \/ Reflow \/ DestroyEntity

SpecDetach == Init /\ [][DetachNext]_vars

\* ---------------------------------------------- metrics over every input
MetricsInit ==
  /\ AppInit
  /\ gridW \in AllGridWidths
  /\ itemW \in AllItemWidths
  /\ pc = 0

MetricsAddEntity ==
  /\ Len(entities) < MetricsLen
  /\ \E propsId \in Ids \cup {NoId}, r \in Ids : AddEntityOp(propsId, r)
  /\ UNCHANGED pc

MetricsResize ==
  /\ \E W \in AllGridWidths, w \in AllItemWidths : ResizeOp(W, w)
  /\ UNCHANGED pc

MetricsReflow ==
  /\ \E W \in AllGridWidths, w \in AllItemWidths : ReflowOp(W, w)
  /\ UNCHANGED pc

MetricsNext ==
  MetricsAddEntity \/ Clear \/ HandleKey \/ MetricsResize \/ MetricsReflow

SpecMetrics == MetricsInit /\ [][MetricsNext]_vars

\* ------------------------------------------------- the scripted scenario
\* Nine addEntity calls, three ArrowDown presses, one clear().
Scenario ==
  <<"addEntity", "addEntity", "addEntity", "addEntity", "addEntity",
    "addEntity", "addEntity", "addEntity", "addEntity",
    "ArrowDown", "ArrowDown", "ArrowDown", "clear">>

ScenarioInit ==
  /\ AppInit
  /\ gridW = Num(1000)
  /\ itemW = Num(200)
  /\ pc = 0

ScenarioAdd ==
  /\ pc < Len(Scenario)
  /\ Scenario[pc + 1] = "addEntity"
  /\ \E propsId \in Ids \cup {NoId}, r \in Ids : AddEntityOp(propsId, r)
  /\ pc' = pc + 1

ScenarioKey ==
  /\ pc < Len(Scenario)
  /\ Scenario[pc + 1] \in Keys
  /\ HandleKeyOp(Scenario[pc + 1])
  /\ pc' = pc + 1

ScenarioClear ==
  /\ pc < Len(Scenario)
  /\ Scenario[pc + 1] = "clear"
  /\ ClearOp
  /\ pc' = pc + 1

ScenarioNext == ScenarioAdd \/ ScenarioKey \/ ScenarioClear

SpecScenario == ScenarioInit /\ [][ScenarioNext]_vars

\* ------------------------------------------------------------ the claims
\* clamp(x, lo, hi) of the specification.
Clamp(x, lo, hi) == IF x < lo THEN lo ELSE IF x > hi THEN hi ELSE x

\* The element of the entity at index i (0-based) of the navigator's items.
ElementAt(i) == element[items[i + 1].obj]

\* C1: in every reachable state focusedIndex is -1 exactly when the
\* collection is empty, and otherwise 0 <= focusedIndex < collection length.
C1_FocusedIndexValid ==
  /\ (focusedIndex = -1) <=> (Len(entities) = 0)
  /\ Len(entities) > 0 => (0 <= focusedIndex /\ focusedIndex < Len(entities))

\* A move down clamped at the last index of a collection of two or more.
C1_Witness ==
  /\ Len(entities) >= 2
  /\ last.op = "ArrowDown"
  /\ last.prev = Len(entities) - 1
  /\ focusedIndex = Len(entities) - 1

\* C2: registering resets focus: after clear() the state is Empty, after
\* every addEntity it is Focused(0), wherever the focus was before.
C2_RegisterResetsFocus ==
  /\ last.op = "clear" => (focusedIndex = -1 /\ Len(items) = 0)
  /\ last.op \in AddOps => (focusedIndex = 0 /\ Len(items) > 0)

\* An addEntity that found the focus at an index other than 0.
C2_Witness == last.op \in AddOps /\ last.prev > 0 /\ focusedIndex = 0

\* C3: from Focused(i), right, left, down and up set focusedIndex to
\* clamp(i + delta, 0, L - 1), delta = +1, -1, +cols, -cols; no wrap-around
\* and no error at either boundary.
C3_ArrowMoveClamps ==
  (active /\ last.op \in Arrows /\ last.prev >= 0) =>
    LET delta == CASE last.op = "ArrowRight" -> 1
                   [] last.op = "ArrowLeft" -> -1
                   [] last.op = "ArrowDown" -> cols
                   [] last.op = "ArrowUp" -> 0 - cols
    IN /\ focusedIndex = Clamp(last.prev + delta, 0, Len(items) - 1)
       /\ ~last.threw

\* Up from an index below cols, other than 0, lands on 0.
C3_Witness ==
  /\ last.op = "ArrowUp"
  /\ last.prev > 0
  /\ last.prev < cols
  /\ focusedIndex = 0

\* C4: after L or more right presses in a row on a collection of length
\* L > 0, focusedIndex is L - 1, and stays there on every further press.
C4_RightRunEndsAtLast ==
  (active /\ Len(items) > 0 /\ rightRun >= Len(items)) =>
    (focusedIndex = Len(items) - 1 /\ ~last.threw)

\* More right presses in a row than the collection is long.
C4_Witness ==
  /\ Len(items) >= 2
  /\ rightRun > Len(items)
  /\ last.prev = Len(items) - 1
  /\ focusedIndex = Len(items) - 1

\* C5: a recomputation on a non-empty collection with container width
\* W >= 0 and sample item width w yields 1 when w is zero, negative,
\* non-finite or unavailable, and max(1, floor(W / (w + 16))) otherwise;
\* cols is an integer >= 1 in every reachable state.
C5_ColumnDerivation ==
  /\ cols \in Nat
  /\ cols >= 1
  /\ (/\ active
      /\ Len(items) > 0
      /\ last.op \in AddOps \cup Keys \cup {"resize"}
      /\ gridW.kind = "num"
      /\ gridW.v >= 0) =>
       LET w == OffsetWidth(ElementAt(0), itemW)
       IN cols = IF w.kind = "num" /\ w.v > 0
                 THEN Max(1, gridW.v \div (w.v + 16))
                 ELSE 1

\* A resize to 1000 / (100 + 16): 8 columns.
C5_Witness ==
  /\ Len(items) > 0
  /\ last.op = "resize"
  /\ gridW = Num(1000)
  /\ itemW = Num(100)
  /\ cols = 8

\* C6: an entity carries the focused visual state if and only if its index
\* is focusedIndex.
C6_FocusMarkerFollowsIndex ==
  \A i \in 0..(Len(items) - 1) : ElementAt(i).focused <=> (i = focusedIndex)

\* C7: addEntity with the id of an entity present in the collection fails
\* and does not append: an addEntity that went through appended an id no
\* earlier entity has, and no two entities share a host-given id.
C7_DuplicateIdRejected ==
  (last.op = "addEntity" /\ ~last.threw) =>
    \A i \in 1..(Len(entities) - 1) :
      entities[i].id # entities[Len(entities)].id

\* C8: in Empty an arrow key is a no-op: the state stays Empty, there is no
\* focus visual or scroll side effect, and no error is raised.
C8_EmptyArrowNoOp ==
  (active /\ last.op \in Arrows /\ last.prev = -1) =>
    /\ focusedIndex = -1
    /\ Len(items) = 0
    /\ last.addClass = 0
    /\ last.scroll = 0
    /\ ~last.threw

\* C9: every addEntity and every arrow move made in a Focused state performs
\* the focus reaction (the visual update of the focused entity and the
\* scroll of an attached one) exactly once, also when the index is unchanged.
C9_FocusReactionOnce ==
  (last.op \in AddOps \/ (active /\ last.op \in Arrows /\ last.prev >= 0)) =>
    /\ focusedIndex >= 0
    /\ focusedIndex < Len(items)
    /\ last.addClass = 1
    /\ ElementAt(focusedIndex).focused
    /\ last.scroll = IF ElementAt(focusedIndex).attached THEN 1 ELSE 0

\* A move clamped at the boundary: the index is the one it was.
C9_Witness ==
  /\ last.op = "ArrowRight"
  /\ last.prev >= 0
  /\ last.prev = focusedIndex
  /\ last.addClass = 1
  /\ last.scroll = 1

\* C10: container 1000, item 200, gap 16: cols is 4; after 9 addEntity focus
\* is 0; three presses of down give 4, 8 and 8; clear() leaves Empty.
C10_ScenarioOutcome ==
  /\ (pc >= 1 /\ pc <= 12) => cols = 4
  /\ (pc >= 1 /\ pc <= 9) => (focusedIndex = 0 /\ Len(entities) = pc)
  /\ pc = 10 => focusedIndex = 4
  /\ pc = 11 => focusedIndex = 8
  /\ pc = 12 => (focusedIndex = 8 /\ Len(entities) = 9)
  /\ pc = 13 => (focusedIndex = -1 /\ Len(entities) = 0 /\ Len(items) = 0)

\* The end of the scenario, the third press having found the focus at 8.
C10_Witness == pc = 13 /\ last.op = "clear" /\ last.prev = 8

\* C11: Enter and Space are no navigation move: in Focused(i) the key clicks
\* the entity at index i exactly once, in Empty it clicks nothing, and in both
\* the handling leaves focusedIndex, the collection and the focus visuals as
\* they were and raises no error.
C11_ActivationClicksFocused ==
  [][(active /\ last'.op \in {"Enter", " "}) =>
       /\ UNCHANGED <<focusedIndex, entities, items, element>>
       /\ ~last'.threw
       /\ last'.addClass = 0
       /\ last'.scroll = 0
       /\ IF focusedIndex >= 0
          THEN last'.click = 1 /\ last'.clickAt = focusedIndex
          ELSE last'.click = 0 /\ last'.clickAt = -1]_vars

\* Enter pressed with the focus on an entity other than the first.
C11_Witness ==
  /\ last.op = "Enter"
  /\ last.prev >= 1
  /\ focusedIndex = last.prev
  /\ last.click = 1
  /\ last.clickAt = last.prev

C13_NoIdReuseAfterClear ==
  last.op = "addEntity" =>
    entities[Len(entities)].id \notin destroyedIds

\* C14: on a focus change scrollIntoView is called for the newly focused
\* entity exactly when its element is attached to the document; for a
\* detached one nothing is scrolled, no error is raised and the index is
\* updated all the same.  Nothing but a focus change scrolls.
C14_ScrollIffAttached ==
  /\ (last.op \in AddOps \/ (active /\ last.op \in Arrows /\ last.prev >= 0)) =>
       /\ focusedIndex >= 0
       /\ focusedIndex < Len(items)
       /\ (last.scroll = 1) <=> ElementAt(focusedIndex).attached
       /\ (last.scroll = 0) <=> ~ElementAt(focusedIndex).attached
       /\ ~last.threw
       /\ last.op = "ArrowRight" =>
            focusedIndex = Clamp(last.prev + 1, 0, Len(items) - 1)
       /\ last.op = "ArrowLeft" =>
            focusedIndex = Clamp(last.prev - 1, 0, Len(items) - 1)
       /\ last.op \in AddOps => focusedIndex = 0
  /\ last.op \notin AddOps \cup Arrows => last.scroll = 0

\* A move onto an entity the host has detached: the index moved, nothing
\* scrolled.
C14_Witness ==
  /\ last.op \in Arrows
  /\ last.prev >= 0
  /\ focusedIndex # last.prev
  /\ ~ElementAt(focusedIndex).attached
  /\ last.scroll = 0
  /\ ~last.threw

\* The column count the layout as it is now gives: floor(W / (w + 16)), at
\* least 1, and 1 for an item without width.
ColsOfLayout ==
  LET w == OffsetWidth(ElementAt(0), itemW)
  IN IF w.kind = "num" /\ w.v > 0 /\ gridW.kind = "num"
     THEN Max(1, gridW.v \div (w.v + 16))
     ELSE 1

\* C15: a key press recomputes cols from the measurements as they are at
\* that press before it applies the delta: an up or down move goes by the
\* column count of the current layout, also when the cached cols were stale,
\* and the focus side effect lands on the index so computed.
C15_RecomputeBeforeMove ==
  [][(active /\ Len(items) > 0 /\ last'.op \in {"ArrowDown", "ArrowUp"}) =>
       /\ cols' = ColsOfLayout
       /\ focusedIndex' =
            Clamp(focusedIndex
                    + (IF last'.op = "ArrowDown" THEN ColsOfLayout
                       ELSE 0 - ColsOfLayout),
                  0, Len(items) - 1)
       /\ last'.addClass = 1
       /\ element'[items[focusedIndex' + 1].obj].focused]_vars

\* The layout changed without a resize event, the cached cols are stale,
\* and a press of down moves by the column count of the layout as it is,
\* which the stale count would not have reached.
C15_Witness ==
  /\ active
  /\ last.op = "reflow"
  /\ Len(items) > 0
  /\ cols # ColsOfLayout
  /\ focusedIndex + Min(cols, ColsOfLayout) < Len(items) - 1
  /\ ENABLED (/\ HandleKeyOp("ArrowDown")
              /\ cols' = ColsOfLayout
              /\ focusedIndex' = focusedIndex + ColsOfLayout)

\* C16: after every addEntity and every clear the navigator's items are the
\* app's entities (same entities, same order, same length) and focusedIndex
\* is valid for that length; addEntity appends the new entity at the end and
\* leaves the others in place; clear leaves both sequences empty.
C16_ItemsFollowEntities ==
  [][/\ last'.op \in AddOps \cup {"clear"} =>
          /\ items' = entities'
          /\ (focusedIndex' = -1) <=> (Len(items') = 0)
          /\ focusedIndex' >= -1
          /\ focusedIndex' < Len(items')
     /\ last'.op \in AddOps =>
          /\ Len(entities') = Len(entities) + 1
          /\ SubSeq(entities', 1, Len(entities)) = entities
          /\ ~last'.threw
     /\ last'.op = "clear" =>
          /\ entities' = <<>>
          /\ items' = <<>>
          /\ ~last'.threw]_vars

\* An addEntity onto a collection that held two entities of different ids.
C16_Witness ==
  /\ last.op \in AddOps
  /\ Len(entities) = 3
  /\ items = entities
  /\ entities[1].id # entities[2].id
  /\ focusedIndex = 0

\* C17: recomputing the metrics while the collection is empty is a no-op:
\* cols keep their previous value (after clear() the value computed before
\* it), and the recomputation raises no error (clear, resize and the keys
\* that call nothing but calcMetrics end without one).
C17_EmptyRecomputeKeepsCols ==
  [][(/\ Len(items') = 0
      /\ last'.op \in {"clear", "resize"} \cup Keys) =>
       /\ cols' = cols
       /\ last'.op \notin Arrows => ~last'.threw]_vars

\* After clear() the four columns computed before it are still there.
C17_Witness ==
  /\ last.op = "clear"
  /\ Len(items) = 0
  /\ cols = 4

\* C18: while active is false a key press of any kind changes nothing
\* (focusedIndex, cols, the collection and the focus visuals stay, nothing is
\* clicked or scrolled); a window resize still recomputes cols.
C18_InactiveIgnoresKeys ==
  [][/\ (~active /\ last'.op \in Keys) =>
          /\ UNCHANGED <<focusedIndex, cols, entities, items, element>>
          /\ last'.click = 0
          /\ last'.scroll = 0
          /\ last'.addClass = 0
          /\ ~last'.threw
     /\ (~active /\ last'.op = "resize" /\ Len(items) > 0) =>
          cols' = ColsOfLayout']_vars

\* ArrowRight pressed while inactive with the focus on the first of two or
\* more entities: the focus did not move.
C18_Witness ==
  /\ ~active
  /\ last.op = "ArrowRight"
  /\ Len(items) >= 2
  /\ last.prev = 0
  /\ focusedIndex = 0

\* C19: a window resize only recomputes the column count: focusedIndex, the
\* collection and the focus visual state stay as they were and no focus
\* reaction (class, scroll, click) happens, in every state and for every new
\* layout.
C19_ResizeOnlyRecomputes ==
  [][last'.op = "resize" =>
       /\ UNCHANGED <<focusedIndex, entities, items, element, active>>
       /\ last'.addClass = 0
       /\ last'.scroll = 0
       /\ last'.click = 0
       /\ ~last'.threw
       /\ Len(items) > 0 => cols' = ColsOfLayout'
       /\ Len(items) = 0 => cols' = cols]_vars

\* A resize to two columns with the focus away from the first entity.
C19_Witness ==
  /\ last.op = "resize"
  /\ Len(items) >= 2
  /\ focusedIndex >= 1
  /\ last.prev = focusedIndex
  /\ gridW = Num(500)
  /\ itemW = Num(200)
  /\ cols = 2

\* A resize handled while the input system is switched off.
C18_ResizeReached == ~active /\ last.op = "resize" /\ Len(items) > 0 /\ cols = 4

====
